---- MODULE Spec2Model ----
(***************************************************************************)
(* Model of the relational persistence layer of the image gallery:         *)
(* DatabaseManager (database.js) over the schema of JsonToSqliteConverter  *)
(* .createSchema, with the backing file, the in-memory sql.js instance,    *)
(* and the add / update / delete / list / save / close operations.         *)
(***************************************************************************)
EXTENDS Integers, Sequences, FiniteSets, TLC

VARIABLES
    file,      \* bytes of the .db file on disk (an exported database)
    db,        \* this.db: the in-memory sql.js database, its tables and its pragma
    loaded,    \* this.db !== null
    clock,     \* position of the wall clock read by new Date()
    result,    \* outcome of the most recent call on the manager
    hist,      \* history: snapshots around the unsaved mutations, and the stage
    json,      \* images array of the .json data file on disk
    disk,      \* what each path given to the migrator or the validity check holds
    mig,       \* the running migrateDatabase call: its position and its locals
    renderer   \* the gallery page: currentJsonFile, images and the fetches in flight

vars == <<file, db, loaded, clock, result, hist, json, disk, mig, renderer>>

\* the state a call on the DatabaseManager instance never reads or writes
elsewhere == <<json, disk, mig, renderer>>

\* the DatabaseManager instance of the calls, with the history of its unsaved work
manager == <<db, loaded, hist>>

(***************************************************************************)
(* Bounds                                                                  *)
(***************************************************************************)
MaxPk == 2

MaxClock == 2

(***************************************************************************)
(* JavaScript values.  One record shape for every value, so that values    *)
(* of different JavaScript types can be compared.                          *)
(***************************************************************************)
Undef == [t |-> "undefined", s |-> "", n |-> 0]

Null == [t |-> "null", s |-> "", n |-> 0]

Str(s) == [t |-> "string", s |-> s, n |-> 0]

Num(n) == [t |-> "number", s |-> "", n |-> n]

NaN == [t |-> "number", s |-> "NaN", n |-> 0]

Bool(b) == [t |-> "boolean", s |-> "", n |-> IF b THEN 1 ELSE 0]

\* JavaScript truthiness
Truthy(v) ==
    /\ v.t \notin {"undefined", "null"}
    /\ v # Str("")
    /\ v # Num(0)
    /\ v # NaN
    /\ v # Bool(FALSE)

\* a || b
Or(a, b) == IF Truthy(a) THEN a ELSE b

\* decimal text of the small numbers of the model
Digits == <<"1", "2", "3", "4", "5", "6", "7", "8", "9">>

NumToText(n) == IF n = 0 THEN "0" ELSE Digits[n]

IsNumericText(s) == s = "0" \/ \E i \in 1..Len(Digits) : Digits[i] = s

TextToNum(s) == IF s = "0" THEN 0 ELSE CHOOSE i \in 1..Len(Digits) : Digits[i] = s

\* the ISO strings new Date().toISOString() yields at the clock positions
IsoStrings == <<"2025-01-01T00:00:00.001Z", "2025-01-01T00:00:00.002Z",
                "2025-01-01T00:00:00.003Z", "2025-01-01T00:00:00.004Z">>

NowIso == Str(IsoStrings[clock])

\* alphabetical order of the strings that are used as tag names
Alphabet == <<"", "beach", "mountains", "sunset", "zeta">>

NameRank(s) == CHOOSE i \in 1..Len(Alphabet) : Alphabet[i] = s

(***************************************************************************)
(* SQLite storage: column affinities and binding                           *)
(***************************************************************************)
\* sql.js binds string, number, boolean (as number) and null; anything else throws
CanBind(v) == v.t # "undefined"

BindValue(v) == IF v.t = "boolean" THEN Num(v.n) ELSE v

\* column declared TEXT: a number is stored as its text
TextAffinity(v) == IF v.t = "number" /\ v # NaN THEN Str(NumToText(v.n)) ELSE v

\* column declared INTEGER or REAL: a well-formed numeric text is stored as a number
NumericAffinity(v) == IF v.t = "string" /\ IsNumericText(v.s) THEN Num(TextToNum(v.s)) ELSE v

MaxOf(S) == IF S = {} THEN 0 ELSE CHOOSE m \in S : \A x \in S : x <= m

\* the file the converter's createSchema produces before any image is inserted
EmptyDb(meta) ==
    [images |-> {}, imagesSeq |-> 0, tags |-> {}, tagsSeq |-> 0,
     image_tags |-> {}, metadata |-> meta]

NoAvailableTags == [present |-> FALSE, list |-> <<>>]

\* rows of the metadata relation, by key (value parsed as JSON on read)
MetadataChoices ==
    { [version |-> Str("1.0"), lastUpdated |-> Undef, availableTags |-> NoAvailableTags],
      [version |-> Undef, lastUpdated |-> Str("2024-06-01T00:00:00.000Z"),
       availableTags |-> [present |-> TRUE, list |-> <<Str("zeta")>>]] }

\* new SQL.Database(bytes): the tables of the file, every pragma at its default
Open(bytes) ==
    [images |-> bytes.images, imagesSeq |-> bytes.imagesSeq, tags |-> bytes.tags,
     tagsSeq |-> bytes.tagsSeq, image_tags |-> bytes.image_tags,
     metadata |-> bytes.metadata, foreign_keys |-> FALSE]

\* PRAGMA foreign_keys = ON
EnableForeignKeys(d) == [d EXCEPT !.foreign_keys = TRUE]

\* the bytes db.export() returns: the tables, without the state of the connection
Export(d) ==
    [images |-> d.images, imagesSeq |-> d.imagesSeq, tags |-> d.tags,
     tagsSeq |-> d.tagsSeq, image_tags |-> d.image_tags, metadata |-> d.metadata]

\* the connection after db.export(), which closes and reopens the database
AfterExport(d) == [d EXCEPT !.foreign_keys = FALSE]

\* statement and call outcomes
Done(d, id) == [ok |-> TRUE, err |-> "", db |-> d, id |-> id]

Thrown(d, err) == [ok |-> FALSE, err |-> err, db |-> d, id |-> 0]

(***************************************************************************)
(* Statements                                                              *)
(***************************************************************************)
\* the SELECT without its WHERE clause: the first row of the table, whatever its id
SelectPkById_AnyRow(d, id) ==
    IF d.images = {} THEN 0 ELSE MaxOf({r.pk_id : r \in d.images})

\* SELECT pk_id FROM images WHERE id = ?   (0 when no row: imagePkId stays null)
SelectPkById(d, id) ==
    LET hits == {r \in d.images : r.id = TextAffinity(BindValue(id))}
    IN IF hits = {} THEN 0 ELSE (CHOOSE r \in hits : TRUE).pk_id

\* a row of images: each bound value under the affinity of its column
ImageRow(pk, p) ==
    [pk_id |-> pk,
     id |-> TextAffinity(p.id),
     title |-> TextAffinity(p.title),
     description |-> TextAffinity(p.description),
     src |-> TextAffinity(p.src),
     ranking |-> NumericAffinity(p.ranking),
     width |-> TextAffinity(p.width),
     height |-> TextAffinity(p.height),
     is_major |-> NumericAffinity(p.is_major),
     group_id |-> TextAffinity(p.group_id),
     major_image_id |-> NumericAffinity(p.major_image_id),
     date_added |-> TextAffinity(p.date_added)]

\* the insert under a schema whose id column is not declared UNIQUE
InsertImageRow_NoUnique(d, p) ==
    LET pk == MaxOf({d.imagesSeq} \cup {r.pk_id : r \in d.images}) + 1
    IN IF TextAffinity(p.id) = Null THEN Thrown(d, "not_null")
       ELSE Done([d EXCEPT !.images = @ \cup {ImageRow(pk, p)}, !.imagesSeq = pk], pk)

\* INSERT INTO images (...) VALUES (...), under pk_id AUTOINCREMENT, id UNIQUE NOT NULL
InsertImageRow(d, p) ==
    LET id == TextAffinity(p.id)
        pk == MaxOf({d.imagesSeq} \cup {r.pk_id : r \in d.images}) + 1
        row == ImageRow(pk, p)
    IN IF id = Null THEN Thrown(d, "not_null")
       ELSE IF \E r \in d.images : r.id = id THEN Thrown(d, "unique_id")
       ELSE Done([d EXCEPT !.images = @ \cup {row}, !.imagesSeq = pk], pk)

\* UPDATE images SET id = ?, ... WHERE pk_id = ?   (id: number of rows changed)
UpdateImageRow(d, pk, p) ==
    LET id == TextAffinity(p.id)
        old == {r \in d.images : r.pk_id = pk}
        row == ImageRow(pk, p)
    IN IF old = {} THEN Done(d, 0)
       ELSE IF id = Null THEN Thrown(d, "not_null")
       ELSE IF \E r \in d.images : r.pk_id # pk /\ r.id = id THEN Thrown(d, "unique_id")
       ELSE Done([d EXCEPT !.images = (@ \ old) \cup {row}], 1)

\* the associations of the row are left in place
DeleteImageTags_NotIssued(d, pk) == Done(d, 0)

\* a DELETE FROM image_tags without its WHERE clause
DeleteImageTags_AllRows(d, pk) == Done([d EXCEPT !.image_tags = {}], 0)

\* DELETE FROM image_tags WHERE image_pk_id = ?
DeleteImageTags(d, pk) ==
    Done([d EXCEPT !.image_tags = {a \in @ : a.image_pk_id # pk}], 0)

\* DELETE FROM images WHERE id = ?   (id: number of rows changed), with the
\* ON DELETE CASCADE of image_tags when foreign keys are enforced
DeleteImageRow(d, id) ==
    LET hits == {r \in d.images : r.id = TextAffinity(BindValue(id))}
        gone == {r.pk_id : r \in hits}
    IN Done([d EXCEPT !.images = @ \ hits,
                      !.image_tags = IF d.foreign_keys
                                     THEN {a \in @ : a.image_pk_id \notin gone}
                                     ELSE @],
            Cardinality(hits))

\* INSERT INTO image_tags (image_pk_id, tag_id) VALUES (?, ?), PRIMARY KEY (image_pk_id, tag_id)
InsertImageTag(d, pk, tagId) ==
    LET a == [image_pk_id |-> pk, tag_id |-> tagId]
    IN IF a \in d.image_tags THEN Thrown(d, "unique_association")
       ELSE IF /\ d.foreign_keys
               /\ \/ \A r \in d.images : r.pk_id # pk
                  \/ \A g \in d.tags : g.id # tagId
            THEN Thrown(d, "foreign_key")
       ELSE Done([d EXCEPT !.image_tags = @ \cup {a}], 0)

\* a resolution without the SELECT: every call inserts a row
getOrCreateTag_AlwaysInserts(d, tagName) ==
    IF ~Truthy(tagName) \/ tagName.t # "string" THEN Thrown(d, "invalid_tag")
    ELSE LET newId == MaxOf({d.tagsSeq} \cup {g.id : g \in d.tags}) + 1
         IN Done([d EXCEPT !.tags = @ \cup {[id |-> newId, name |-> tagName]},
                           !.tagsSeq = newId], newId)

\* DatabaseManager.getOrCreateTag
getOrCreateTag(d, tagName) ==
    IF ~Truthy(tagName) \/ tagName.t # "string" THEN Thrown(d, "invalid_tag")
    ELSE LET hits == {g \in d.tags : g.name = tagName}
             newId == MaxOf({d.tagsSeq} \cup {g.id : g \in d.tags}) + 1
         IN IF hits # {} THEN Done(d, (CHOOSE g \in hits : TRUE).id)
            ELSE Done([d EXCEPT !.tags = @ \cup {[id |-> newId, name |-> tagName]},
                                !.tagsSeq = newId], newId)

\* for (const tagName of image.tags) { getOrCreateTag; INSERT INTO image_tags }
RECURSIVE InsertTagRelationships(_, _, _)
InsertTagRelationships(d, pk, tags) ==
    IF tags = <<>> THEN Done(d, 0)
    ELSE LET g == getOrCreateTag(d, Head(tags))
         IN IF ~g.ok THEN g
            ELSE LET i == InsertImageTag(g.db, pk, g.id)
                 IN IF ~i.ok THEN i
                    ELSE InsertTagRelationships(i.db, pk, Tail(tags))

\* a ROLLBACK that is not issued: the work done before the throw stays
Rollback_NotIssued(atBegin, current) == current

\* ROLLBACK: the database as it was at BEGIN TRANSACTION
Rollback(atBegin, current) == atBegin

\* COMMIT
Commit(atBegin, current) == current

(***************************************************************************)
(* DatabaseManager: the three transactional calls, as run on a database d  *)
(* between BEGIN TRANSACTION and the COMMIT or the throw                   *)
(***************************************************************************)
\* image.isMajor !== false ? 1 : 0
IsMajorParam(v) == IF v = Bool(FALSE) THEN Num(0) ELSE Num(1)

\* the parameter array of addImage
AddParams(image, now) ==
    [id |-> image.id,
     title |-> Or(image.title, Str("")),
     description |-> Or(image.description, Str("")),
     src |-> Or(image.src, Str("")),
     ranking |-> Or(image.ranking, Num(0)),
     width |-> Or(image.width, Str("")),
     height |-> Or(image.height, Str("")),
     is_major |-> IsMajorParam(image.isMajor),
     group_id |-> Or(image.groupId, Null),
     major_image_id |-> Or(image.majorImageId, Null),
     date_added |-> Or(image.date, now)]

\* the parameter array of updateImage (without the trailing pk_id)
UpdateParams(image, targetId, now) ==
    [id |-> targetId,
     title |-> image.title,
     description |-> Or(image.description, Str("")),
     src |-> Or(image.src, Str("")),
     ranking |-> Or(image.ranking, Num(0)),
     width |-> Or(image.width, Str("")),
     height |-> Or(image.height, Str("")),
     is_major |-> IsMajorParam(image.isMajor),
     group_id |-> Or(image.groupId, Null),
     major_image_id |-> Or(image.majorImageId, Null),
     date_added |-> Or(image.date, now)]

ParamNames == {"id", "title", "description", "src", "ranking", "width", "height",
               "is_major", "group_id", "major_image_id", "date_added"}

BindAll(p) == [k \in ParamNames |-> BindValue(p[k])]

\* body of the try block of addImage
AddImageBody(d, image, now) ==
    LET params == AddParams(image, now)
    IN IF \E k \in ParamNames : params[k] = Undef THEN Thrown(d, "undefined_param")
       ELSE LET ins == InsertImageRow(d, BindAll(params))
            IN IF ~ins.ok THEN ins
               ELSE IF Len(image.tags) > 0
                    THEN LET imagePkId == SelectPkById(ins.db, image.id)
                         IN IF imagePkId = 0 THEN Thrown(ins.db, "no_pk")
                            ELSE LET rel == InsertTagRelationships(ins.db, imagePkId, image.tags)
                                 IN IF rel.ok THEN Done(rel.db, imagePkId) ELSE rel
                    ELSE Done(ins.db, ins.id)

\* a lookup that never consults image.originalId
UpdateTargetPk_IdOnly(d, image) == SelectPkById(d, image.id)

\* the row updateImage settles on: by image.id first, by image.originalId otherwise
UpdateTargetPk(d, image) ==
    LET byId == SelectPkById(d, image.id)
    IN IF byId = 0 /\ Truthy(image.originalId)
       THEN SelectPkById(d, image.originalId)
       ELSE byId

\* which of the two lookups of updateImage decides
UpdateLookup(d, image) ==
    IF SelectPkById(d, image.id) = 0 /\ Truthy(image.originalId) THEN "originalId" ELSE "id"

\* body of the try block of updateImage
UpdateImageBody(d, image, now) ==
    IF ~CanBind(image.id) THEN Thrown(d, "bind")
    ELSE LET imagePkId == UpdateTargetPk(d, image)
             params == UpdateParams(image, image.id, now)
         IN IF imagePkId = 0 THEN Thrown(d, "not_found")
            ELSE IF \E k \in ParamNames : ~CanBind(params[k]) THEN Thrown(d, "bind")
            ELSE LET upd == UpdateImageRow(d, imagePkId, BindAll(params))
                 IN IF ~upd.ok THEN upd
                    ELSE IF upd.id = 0 THEN Thrown(upd.db, "not_found")
                    ELSE LET del == DeleteImageTags(upd.db, imagePkId)
                             rel == IF Len(image.tags) > 0
                                    THEN InsertTagRelationships(del.db, imagePkId, image.tags)
                                    ELSE Done(del.db, 0)
                         IN IF rel.ok THEN Done(rel.db, imagePkId) ELSE rel

\* body of the try block of deleteImage
DeleteImageBody(d, imageId) ==
    IF ~CanBind(imageId) THEN Thrown(d, "bind")
    ELSE LET imagePkId == SelectPkById(d, imageId)
         IN IF imagePkId = 0 THEN Thrown(d, "not_found")
            ELSE LET rel == DeleteImageTags(d, imagePkId)
                     del == DeleteImageRow(rel.db, imageId)
                 IN IF del.id = 0 THEN Thrown(del.db, "not_found")
                    ELSE Done(del.db, imagePkId)

\* try { BEGIN; body; COMMIT } catch { ROLLBACK; throw }
Transaction(atBegin, outcome) ==
    IF outcome.ok THEN [outcome EXCEPT !.db = Commit(atBegin, outcome.db)]
    ELSE [outcome EXCEPT !.db = Rollback(atBegin, outcome.db)]

(***************************************************************************)
(* DatabaseManager.getAllImages                                            *)
(***************************************************************************)
RECURSIVE SortPks(_)
SortPks(S) ==
    IF S = {} THEN <<>>
    ELSE LET m == CHOOSE x \in S : \A y \in S : x <= y
         IN <<m>> \o SortPks(S \ {m})

\* Array.prototype.sort() and ORDER BY t.name on a set of names
RECURSIVE SortNames(_)
SortNames(S) ==
    IF S = {} THEN <<>>
    ELSE LET m == CHOOSE x \in S : \A y \in S : NameRank(x.s) <= NameRank(y.s)
         IN <<m>> \o SortNames(S \ {m})

\* parseFloat / parseInt on a value read from a numeric column
ParseNumber(v) ==
    IF v.t = "number" THEN v
    ELSE IF v.t = "string" /\ IsNumericText(v.s) THEN Num(TextToNum(v.s))
    ELSE NaN

\* names joined to one image row, ORDER BY t.name
TagNamesOfPk(d, pk) ==
    SortNames({g.name : g \in {g \in d.tags :
                  [image_pk_id |-> pk, tag_id |-> g.id] \in d.image_tags}})

\* imageTags[imageId]: the join rows ORDER BY i.pk_id, t.name whose i.id is imageId
RECURSIVE ConcatTagNames(_, _)
ConcatTagNames(d, pks) ==
    IF pks = <<>> THEN <<>>
    ELSE TagNamesOfPk(d, Head(pks)) \o ConcatTagNames(d, Tail(pks))

ImageTagsOfId(d, id) ==
    ConcatTagNames(d, SortPks({r.pk_id : r \in {r \in d.images : r.id = id}}))

\* one element of images: the row with its columns converted and renamed to camelCase
ImageObject(d, r) ==
    [id |-> r.id,
     title |-> r.title,
     description |-> r.description,
     src |-> r.src,
     ranking |-> IF r.ranking # Null THEN ParseNumber(r.ranking) ELSE Null,
     width |-> r.width,
     height |-> r.height,
     isMajor |-> Bool(r.is_major = Num(1)),
     groupId |-> r.group_id,
     majorImageId |-> IF r.major_image_id # Null THEN ParseNumber(r.major_image_id) ELSE Null,
     dateAdded |-> r.date_added,
     tags |-> ImageTagsOfId(d, r.id)]

RowOfPk(d, pk) == CHOOSE r \in d.images : r.pk_id = pk

RECURSIVE ImageObjects(_, _)
ImageObjects(d, pks) ==
    IF pks = <<>> THEN <<>>
    ELSE <<ImageObject(d, RowOfPk(d, Head(pks)))>> \o ImageObjects(d, Tail(pks))

Range(q) == {q[i] : i \in 1..Len(q)}

\* DatabaseManager.getAvailableTags
getAvailableTags(images) ==
    SortNames(UNION {Range(images[i].tags) : i \in 1..Len(images)})

\* DatabaseManager.getAllImages
getAllImages(d, now) ==
    LET images == ImageObjects(d, SortPks({r.pk_id : r \in d.images}))
    IN IF d.images = {}
       THEN [images |-> <<>>,
             metadata |-> [isEmptyObject |-> TRUE, version |-> Undef, lastUpdated |-> Undef,
                           totalImages |-> Undef, availableTags |-> NoAvailableTags]]
       ELSE [images |-> images,
             metadata |-> [isEmptyObject |-> FALSE,
                           version |-> Or(d.metadata.version, Str("1.0")),
                           lastUpdated |-> Or(d.metadata.lastUpdated, now),
                           totalImages |-> Num(Len(images)),
                           availableTags |-> [present |-> TRUE,
                                              list |-> getAvailableTags(images)]]]

(***************************************************************************)
(* History of the unsaved work, kept beside the program state              *)
(***************************************************************************)
NoMetadata == [version |-> Undef, lastUpdated |-> Undef, availableTags |-> NoAvailableTags]

\* value of db while no database is open
Closed == Open(EmptyDb(NoMetadata))

NoHistory == [pre |-> EmptyDb(NoMetadata), post |-> EmptyDb(NoMetadata), stage |-> "clean"]

\* a mutating call committed: pre is the store before the first unsaved mutation
HistMutated(before, after) ==
    IF hist.stage = "dirty" THEN [hist EXCEPT !.post = Export(after)]
    ELSE [pre |-> Export(before), post |-> Export(after), stage |-> "dirty"]

HistSaved == IF hist.stage = "dirty" THEN [hist EXCEPT !.stage = "saved"] ELSE hist

HistClosed(saved) ==
    IF hist.stage = "dirty"
    THEN [hist EXCEPT !.stage = IF saved THEN "closedKept" ELSE "closedLost"]
    ELSE IF hist.stage = "saved" THEN [hist EXCEPT !.stage = "closedKept"]
    ELSE NoHistory

HistLoaded ==
    IF hist.stage = "closedKept" THEN [hist EXCEPT !.stage = "reopenedKept"]
    ELSE IF hist.stage = "closedLost" THEN [hist EXCEPT !.stage = "reopenedLost"]
    ELSE NoHistory

\* what the caller of a call sees, with the row the call settled on and how it found it
Outcome(op, o, via) == [op |-> op, ok |-> o.ok, err |-> o.err, pk |-> o.id, via |-> via]

NotLoaded(op) == Outcome(op, [ok |-> FALSE, err |-> "not_loaded", id |-> 0], "")

Returned(op) == Outcome(op, [ok |-> TRUE, err |-> "", id |-> 0], "")

(***************************************************************************)
(* Files on disk, as fs and sql.js find them at a path                     *)
(***************************************************************************)
\* tables of a store written by createSchema
StoreTables == {"images", "tags", "image_tags", "metadata"}

\* what a path holds: whether a file exists there, whether its first bytes
\* are 'SQLite format 3', whether new SQL.Database(bytes) and its first
\* statement succeed, the tables of sqlite_master, the layout of the images
\* table ("legacy": id INTEGER PRIMARY KEY; "current": pk_id and a TEXT id)
\* and the rows of the tables
FileContent(exists, magic, opens, tables, layout, data) ==
    [exists |-> exists, magic |-> magic, opens |-> opens, tables |-> tables,
     layout |-> layout, data |-> data]

\* a file whose rows play no part
PathContent(exists, magic, opens, tables) ==
    FileContent(exists, magic, opens, tables, "none", <<>>)

\* no file at the path
Missing == PathContent(FALSE, FALSE, FALSE, {})

\* a store file of the current layout, as found at its path
OnDisk(bytes) == FileContent(TRUE, TRUE, TRUE, StoreTables, "current", bytes)

\* a path, cut at each occurrence of '.db'
DbFilePaths == { <<"gallery", ".db">>, <<"gallery.sqlite">> }

\* position of the first '.db' in a path (0: none)
FirstDb(path) ==
    LET hits == {i \in 1..Len(path) : path[i] = ".db"}
    IN IF hits = {} THEN 0 ELSE CHOOSE i \in hits : \A k \in hits : i <= k

\* dbFilePath.replace('.db', '_backup_pre_migration.db'): the first occurrence only
BackupPath(path) ==
    LET at == FirstDb(path)
    IN IF at = 0 THEN path
       ELSE SubSeq(path, 1, at - 1) \o <<"_backup_pre_migration", ".db">>
            \o SubSeq(path, at + 1, Len(path))

Paths == DbFilePaths \cup {BackupPath(path) : path \in DbFilePaths}

NoFiles == [path \in Paths |-> Missing]

\* no migrateDatabase call is running
NoMigration ==
    [pc |-> "idle", dbFilePath |-> <<>>, fileBuffer |-> Missing, data |-> Missing]

\* the globals of the gallery page before its first loadImageData: let images = [],
\* let currentJsonFile = 'images_data_groups.json' (from: the data file the
\* images were loaded from, loads: the loadImageData calls made so far)
PageOpened ==
    [currentJsonFile |-> "json", images |-> <<>>, from |-> "none",
     inflight |-> {}, loads |-> 0]

(***************************************************************************)
(* Operations of DatabaseManager                                           *)
(***************************************************************************)
\* new DatabaseManager(), beside a store file written by the converter
Init ==
    /\ file \in {EmptyDb(m) : m \in MetadataChoices}
    /\ db = Closed
    /\ loaded = FALSE
    /\ clock = 1
    /\ result = Returned("new")
    /\ hist = NoHistory
    /\ json = <<>>
    /\ disk = NoFiles
    /\ mig = NoMigration
    /\ renderer = PageOpened

\* loadDatabase(dbFilePath): new SQL.Database(fs.readFileSync(dbFilePath))
loadDatabase ==
    /\ db' = EnableForeignKeys(Open(file))
    /\ loaded' = TRUE
    /\ result' = Returned("load")
    /\ hist' = HistLoaded
    /\ UNCHANGED <<file, clock, elsewhere>>

\* addImage(image)
addImage(image) ==
    /\ db.imagesSeq < MaxPk
    /\ IF ~loaded
       THEN /\ result' = NotLoaded("add")
            /\ UNCHANGED <<db, hist>>
       ELSE LET o == Transaction(db, AddImageBody(db, image, NowIso))
            IN /\ db' = o.db
               /\ result' = Outcome("add", o, "")
               /\ hist' = IF o.ok THEN HistMutated(db, o.db) ELSE hist
    /\ UNCHANGED <<file, loaded, clock, elsewhere>>

\* updateImage(image)
updateImage(image) ==
    /\ IF ~loaded
       THEN /\ result' = NotLoaded("update")
            /\ UNCHANGED <<db, hist>>
       ELSE LET o == Transaction(db, UpdateImageBody(db, image, NowIso))
            IN /\ db' = o.db
               /\ result' = Outcome("update", o, UpdateLookup(db, image))
               /\ hist' = IF o.ok THEN HistMutated(db, o.db) ELSE hist
    /\ UNCHANGED <<file, loaded, clock, elsewhere>>

\* deleteImage(imageId)
deleteImage(imageId) ==
    /\ IF ~loaded
       THEN /\ result' = NotLoaded("delete")
            /\ UNCHANGED <<db, hist>>
       ELSE LET o == Transaction(db, DeleteImageBody(db, imageId))
            IN /\ db' = o.db
               /\ result' = Outcome("delete", o, "")
               /\ hist' = IF o.ok THEN HistMutated(db, o.db) ELSE hist
    /\ UNCHANGED <<file, loaded, clock, elsewhere>>

\* save(): fs.writeFileSync(this.dbFilePath, this.db.export())
save ==
    /\ IF ~loaded
       THEN /\ result' = NotLoaded("save")
            /\ UNCHANGED <<file, db, hist>>
       ELSE /\ file' = Export(db)
            /\ db' = AfterExport(db)
            /\ result' = Returned("save")
            /\ hist' = HistSaved
    /\ UNCHANGED <<loaded, clock, elsewhere>>

\* a close that always writes the database out
FileAfterClose_AlwaysSaves(saveFirst, d, f) == Export(d)

\* the file after close(saveFirst) on an open database d
FileAfterClose(saveFirst, d, f) == IF saveFirst THEN Export(d) ELSE f

\* close(save = false)
close(saveFirst) ==
    /\ IF loaded
       THEN /\ file' = FileAfterClose(saveFirst, db, file)
            /\ db' = Closed
            /\ loaded' = FALSE
            /\ hist' = HistClosed(saveFirst)
       ELSE UNCHANGED <<file, db, loaded, hist>>
    /\ result' = Returned("close")
    /\ UNCHANGED <<clock, elsewhere>>

\* time passes between two calls
Tick ==
    /\ clock < MaxClock
    /\ clock' = clock + 1
    /\ UNCHANGED <<file, db, loaded, result, hist, elsewhere>>

(***************************************************************************)
(* Inputs                                                                  *)
(***************************************************************************)
\* a request as the tests and the editor form build it
BaseImage ==
    [id |-> Str("a1"), originalId |-> Undef, title |-> Str("Sunset"),
     description |-> Str("at the sea"), src |-> Str("sunset.jpg"),
     ranking |-> Num(5), width |-> Str("400px"), height |-> Str("auto"),
     isMajor |-> Bool(TRUE), groupId |-> Undef, majorImageId |-> Undef,
     date |-> Str("2024-01-01T00:00:00.000Z"), dateAdded |-> Undef, tags |-> <<>>]

CrudIds == {Str("a1"), Str("a2")}

CrudTitles == {Str("Sunset"), Str("Peak")}

CrudTagLists ==
    { <<>>, <<Str("sunset")>>, <<Str("beach"), Str("sunset")>>,
      <<Str("beach"), Str("beach")>>, <<Str("beach"), Str("")>> }

CrudInputs ==
    { [BaseImage EXCEPT !.id = i, !.originalId = o, !.title = t, !.tags = g] :
        i \in CrudIds, o \in CrudIds \cup {Undef}, t \in CrudTitles, g \in CrudTagLists }

\* add, update (with or without a rename) and delete on one open store
\* the requests of an add carry no originalId (addImage never reads it)
CrudAddInputs == {image \in CrudInputs : image.originalId = Undef}

NextCrud ==
    \/ loadDatabase
    \/ \E image \in CrudAddInputs : addImage(image)
    \/ \E image \in CrudInputs : updateImage(image)
    \/ \E id \in CrudIds : deleteImage(id)

SpecCrud == Init /\ [][NextCrud]_vars

\* the save / close / reopen life cycle around the mutating calls
PersistInputs ==
    { [BaseImage EXCEPT !.id = i, !.title = v.title, !.tags = v.tags] :
        i \in CrudIds,
        v \in { [title |-> Str("Sunset"), tags |-> <<Str("sunset")>>],
                [title |-> Str("Peak"), tags |-> <<>>] } }

NextPersist ==
    \/ loadDatabase
    \/ \E image \in PersistInputs : addImage(image)
    \/ \E image \in PersistInputs : updateImage(image)
    \/ \E id \in CrudIds : deleteImage(id)
    \/ save
    \/ \E saveFirst \in BOOLEAN : close(saveFirst)

SpecPersist == Init /\ [][NextPersist]_vars

\* requests that differ from the base request in one field
FieldVariants ==
    {[BaseImage EXCEPT !.ranking = v] : v \in {Undef, Null, Num(0), Num(5)}}
    \cup {[BaseImage EXCEPT !.majorImageId = v] : v \in {Null, Num(1), Str("a1")}}
    \cup {[BaseImage EXCEPT !.isMajor = v] : v \in {Undef, Bool(FALSE)}}
    \cup {[BaseImage EXCEPT !.date = v] : v \in {Undef, Str("2024-02-02T00:00:00.000Z")}}
    \cup {[BaseImage EXCEPT !.groupId = Str("g1")]}
    \cup {[BaseImage EXCEPT !.description = Str("")]}
    \cup {[BaseImage EXCEPT !.width = Null, !.height = Null]}
    \cup {[BaseImage EXCEPT !.tags = <<Str("sunset"), Str("beach")>>]}

FieldInputs ==
    {[v EXCEPT !.title = t] : v \in FieldVariants, t \in CrudTitles}
    \cup {[BaseImage EXCEPT !.id = Num(1)]}

\* { ...image, title } for an element image of getAllImages().images
AsRequest(obj, title) ==
    [id |-> obj.id, originalId |-> Undef, title |-> title,
     description |-> obj.description, src |-> obj.src, ranking |-> obj.ranking,
     width |-> obj.width, height |-> obj.height, isMajor |-> obj.isMajor,
     groupId |-> obj.groupId, majorImageId |-> obj.majorImageId,
     date |-> Undef, dateAdded |-> obj.dateAdded, tags |-> obj.tags]

\* the update of testDatabaseUpdate: the first listed image with a new title
updateFirstListed(title) ==
    /\ loaded
    /\ db.images # {}
    /\ updateImage(AsRequest(getAllImages(db, NowIso).images[1], title))

NextFields ==
    \/ loadDatabase
    \/ \E image \in FieldInputs : addImage(image)
    \/ \E image \in FieldInputs : updateImage(image)
    \/ \E title \in CrudTitles : updateFirstListed(title)
    \/ \E id \in {Str("a1"), Num(1)} : deleteImage(id)
    \/ Tick

SpecFields == Init /\ [][NextFields]_vars

(***************************************************************************)
(* Properties                                                              *)
(***************************************************************************)
\* C1: after a mutation of an opened store, closing without save() and
\* reopening the file gives the store as it was before the unsaved
\* mutations (the mutation is absent); saving before the close and
\* reopening gives the store as the last mutation left it (it is present).
C1_ExplicitSave ==
    /\ hist.stage = "reopenedLost" => loaded /\ Export(db) = hist.pre
    /\ hist.stage = "reopenedKept" => loaded /\ Export(db) = hist.post

C1_Witness ==
    /\ hist.stage = "reopenedLost"
    /\ result.op = "load"
    /\ hist.post # hist.pre
    /\ Export(db) # hist.post

\* C2: an addImage, updateImage or deleteImage call that raises an error
\* leaves the in-memory store exactly as it was before the call (image
\* rows, tag rows, association rows).
C2_ErrorLeavesStore ==
    [][(result'.op \in {"add", "update", "delete"} /\ ~result'.ok) => db' = db]_vars

C2_Witness ==
    /\ loaded
    /\ result.op = "update"
    /\ result.err = "invalid_tag"
    /\ db.images # {}
    /\ \A g \in db.tags : g.name # Str("beach")

UniquePublicIds(d) == \A r1, r2 \in d.images : r1.id = r2.id => r1 = r2

\* C4: no two image rows share a publicId in any state reached by add,
\* update (with or without rename) and delete; an add whose publicId is in
\* use fails and leaves the store, with its one row of that id, unchanged.
C4_PublicIdUnique ==
    /\ [](UniquePublicIds(db))
    /\ [][\A image \in CrudAddInputs :
            (/\ result'.op = "add"
             /\ loaded
             /\ \E r \in db.images : r.id = TextAffinity(image.id)
             /\ addImage(image))
            => (/\ ~result'.ok
                /\ db' = db
                /\ Cardinality({r \in db'.images : r.id = TextAffinity(image.id)}) = 1)]_vars

C4_Witness ==
    /\ result.op = "add"
    /\ result.err = "unique_id"
    /\ Cardinality(db.images) = 1

\* the elements of getAllImages().images whose id is id
ListedWithId(d, id) ==
    LET images == getAllImages(d, Str("")).images
    IN {images[i] : i \in {i \in 1..Len(images) : images[i].id = id}}

\* C7: a rename (previous id supplied, new id unused) with the tag list
\* unchanged keeps the row's internal key and the set of (internal key, tag)
\* associations; the record and its tags are then listed under the new
\* publicId and nothing is listed under the old one.
C7_RenameKeepsAssociations ==
    [][\A image \in CrudInputs :
         LET p == SelectPkById(db, image.originalId)
         IN (/\ result'.op = "update"
             /\ loaded
             /\ p # 0
             /\ SelectPkById(db, image.id) = 0
             /\ image.tags = TagNamesOfPk(db, p)
             /\ updateImage(image))
            => (/\ result'.ok
                /\ result'.pk = p
                /\ RowOfPk(db', p).id = image.id
                /\ db'.image_tags = db.image_tags
                /\ \E obj \in ListedWithId(db', image.id) : obj.tags = image.tags
                /\ ListedWithId(db', image.originalId) = {})]_vars

C7_Witness ==
    /\ result.op = "update"
    /\ result.ok
    /\ result.via = "originalId"
    /\ \E a \in db.image_tags : a.image_pk_id = result.pk

\* a field the request carries (absent and null both mean "not supplied")
Supplied(v) == v # Undef /\ v # Null

SameIfSupplied(v, got) == Supplied(v) => got = v

\* C3: the record listAll returns for an image accepted by add has every
\* supplied field (id, title, description, src, ranking, width, height,
\* isMajor, groupId, majorImageId, date added) equal to what was supplied,
\* and tags equal to the supplied list de-duplicated and sorted.
C3_AddRoundTrip ==
    [][\A image \in FieldInputs :
         (loaded /\ addImage(image) /\ result'.ok)
         => \E obj \in Range(getAllImages(db', NowIso).images) :
               /\ obj.id = image.id
               /\ obj.title = image.title
               /\ SameIfSupplied(image.description, obj.description)
               /\ SameIfSupplied(image.src, obj.src)
               /\ SameIfSupplied(image.ranking, obj.ranking)
               /\ SameIfSupplied(image.width, obj.width)
               /\ SameIfSupplied(image.height, obj.height)
               /\ SameIfSupplied(image.isMajor, obj.isMajor)
               /\ SameIfSupplied(image.groupId, obj.groupId)
               /\ SameIfSupplied(image.majorImageId, obj.majorImageId)
               /\ SameIfSupplied(image.date, obj.dateAdded)
               /\ obj.tags = SortNames(Range(image.tags))]_vars

\* names of the tags associated with at least one image row of the store
ReferencedTagNames(d) ==
    {g.name : g \in {g \in d.tags :
        \E r \in d.images : [image_pk_id |-> r.pk_id, tag_id |-> g.id] \in d.image_tags}}

\* C5: the availableTags list of listAll is the sorted, de-duplicated union
\* of the tag names of the images in the store: no unreferenced tag, never
\* the value stored under availableTags in metadata, and the empty list
\* when the store holds no image.
C5_AvailableTags ==
    loaded => getAllImages(db, NowIso).metadata.availableTags
                 = [present |-> TRUE, list |-> SortNames(ReferencedTagNames(db))]

\* the associations of one image row
AssociationsOf(d, pk) == {a \in d.image_tags : a.image_pk_id = pk}

\* C6: updateImage with a new id and the previous identifier of an existing
\* row gives the new id, fields and tags to the row that carried the
\* previous identifier, and changes no other row's fields or associations,
\* also when another row already carries the new id.
C6_RenameTargetsOriginalRow ==
    [][\A image \in CrudInputs :
         LET p == SelectPkById(db, image.originalId)
         IN (/\ result'.op = "update"
             /\ loaded
             /\ p # 0
             /\ image.id # image.originalId
             /\ updateImage(image))
            => (/\ \A r \in db.images :
                     r.pk_id # p => /\ r \in db'.images
                                    /\ AssociationsOf(db', r.pk_id) = AssociationsOf(db, r.pk_id)
                /\ result'.ok => /\ result'.pk = p
                                 /\ RowOfPk(db', p).id = image.id
                                 /\ RowOfPk(db', p).title = image.title
                                 /\ Range(TagNamesOfPk(db', p)) = Range(image.tags))]_vars

\* C8: the date-added value is set at add and unchanged by every later
\* update that does not supply a different one; in particular an update
\* with the record listAll returned, changed only in its title, keeps it.
C8_DateAddedPreserved ==
    /\ [][\A image \in FieldInputs :
            (/\ loaded
             /\ updateImage(image)
             /\ result'.ok
             /\ ~Supplied(image.date) \/ image.date = RowOfPk(db, result'.pk).date_added)
            => RowOfPk(db', result'.pk).date_added = RowOfPk(db, result'.pk).date_added]_vars
    /\ [][\A title \in CrudTitles :
            (updateFirstListed(title) /\ result'.ok)
            => RowOfPk(db', result'.pk).date_added = RowOfPk(db, result'.pk).date_added]_vars

\* C9: an image added or updated with no ranking (absent or null) is listed
\* with ranking null, never with a number synthesised by the store.
C9_EmptyRankingStaysEmpty ==
    [][\A image \in FieldInputs :
         (/\ loaded
          /\ ~Supplied(image.ranking)
          /\ addImage(image) \/ updateImage(image)
          /\ result'.ok)
         => \A obj \in ListedWithId(db', RowOfPk(db', result'.pk).id) : obj.ranking = Null]_vars

\* C10: add with a tag list that repeats a tag name succeeds: the image row
\* is inserted and exactly one association row exists for the image and
\* that tag.
C10_RepeatedTagSkipped ==
    [][\A image \in CrudAddInputs :
         (/\ result'.op = "add"
          /\ loaded
          /\ SelectPkById(db, image.id) = 0
          /\ \A i \in 1..Len(image.tags) : Truthy(image.tags[i])
          /\ \E i, j \in 1..Len(image.tags) : i # j /\ image.tags[i] = image.tags[j]
          /\ addImage(image))
         => (/\ result'.ok
             /\ \E r \in db'.images : r.id = image.id
             /\ Cardinality(AssociationsOf(db', result'.pk)) = Cardinality(Range(image.tags)))]_vars

(***************************************************************************)
(* Requests with a missing or empty required field                         *)
(***************************************************************************)
ValidationInputs ==
    { [BaseImage EXCEPT !.id = i, !.title = t, !.tags = g] :
        i \in {Undef, Null, Str(""), Str("a1")},
        t \in {Undef, Null, Str(""), Str("Sunset")},
        g \in {<<>>, <<Str("sunset")>>} }

NextValidation ==
    \/ loadDatabase
    \/ \E image \in ValidationInputs : addImage(image)
    \/ \E image \in ValidationInputs : updateImage(image)
    \/ \E id \in {Str(""), Str("a1")} : deleteImage(id)

SpecValidation == Init /\ [][NextValidation]_vars

\* a required field that is missing or the empty string
MissingOrEmpty(v) == ~Supplied(v) \/ v = Str("")

\* C11: add with a publicId or a title that is missing or the empty string
\* fails with an error and adds no image row, tag row or association row.
C11_AddRequiresIdAndTitle ==
    [][\A image \in ValidationInputs :
         (/\ result'.op = "add"
          /\ loaded
          /\ MissingOrEmpty(image.id) \/ MissingOrEmpty(image.title)
          /\ addImage(image))
         => (/\ ~result'.ok
             /\ db'.images = db.images
             /\ db'.tags = db.tags
             /\ db'.image_tags = db.image_tags)]_vars

\* C12: after deleteImage succeeds for an image that had K tag
\* associations, no association row refers to that image's internal key,
\* the image is no longer listed, every one of the K tag rows still exists
\* (also when no other image references it), and the rows and associations
\* of all other images are unchanged.
C12_DeleteKeepsTagsAndOthers ==
    [][\A id \in CrudIds :
         LET p == SelectPkById(db, id)
         IN (/\ result'.op = "delete"
             /\ loaded
             /\ deleteImage(id)
             /\ result'.ok)
            => (/\ result'.pk = p
                /\ AssociationsOf(db', p) = {}
                /\ ListedWithId(db', id) = {}
                /\ db'.tags = db.tags
                /\ db'.images = db.images \ {RowOfPk(db, p)}
                /\ db'.image_tags = db.image_tags \ AssociationsOf(db, p))]_vars

\* a delete has succeeded without the cascade of an enforced foreign key,
\* another image row is still there, and the tag rows are left although no
\* association refers to them
C12_Witness ==
    /\ result.op = "delete"
    /\ result.ok
    /\ ~db.foreign_keys
    /\ db.images # {}
    /\ db.image_tags = {}
    /\ db.tags # {}

\* C13: after updateImage succeeds, the set of tags associated with the
\* updated row equals exactly the set of names in the supplied tag list
\* (none when the list is empty or absent), whatever tags the row had
\* before, and the associations of every other image are unchanged.
C13_UpdateReplacesTags ==
    [][\A image \in CrudInputs :
         (/\ result'.op = "update"
          /\ result'.ok
          /\ loaded
          /\ result'.pk = UpdateTargetPk(db, image)
          /\ RowOfPk(db', result'.pk).id = image.id
          /\ RowOfPk(db', result'.pk).title = image.title
          /\ updateImage(image))
         => (/\ Range(TagNamesOfPk(db', result'.pk)) = Range(image.tags)
             /\ Cardinality(AssociationsOf(db', result'.pk)) = Cardinality(Range(image.tags))
             /\ \A r \in db.images :
                  r.pk_id # result'.pk
                  => AssociationsOf(db', r.pk_id) = AssociationsOf(db, r.pk_id))]_vars

\* an update has succeeded with the empty list on a store where a tag row is
\* left without association and another image keeps its associations
C13_Witness ==
    /\ result.op = "update"
    /\ result.ok
    /\ AssociationsOf(db, result.pk) = {}
    /\ \E a \in db.image_tags : a.image_pk_id # result.pk
    /\ \E g \in db.tags : \A a \in db.image_tags : a.tag_id # g.id

(***************************************************************************)
(* DatabaseManager.isValidDatabase, on what a path holds                   *)
(***************************************************************************)
\* SELECT name FROM sqlite_master WHERE type='table' AND name IN
\* ('images', 'tags', 'metadata'), then result[0].values.length >= 2
HasRequiredTables(tables) ==
    Cardinality(tables \cap {"images", "tags", "metadata"}) >= 2

\* isValidDatabase(dbFilePath): value is the boolean returned, thrown whether
\* an exception leaves the function
ValidityOf(c) ==
    IF ~c.exists THEN [value |-> FALSE, thrown |-> FALSE]
    ELSE IF ~c.magic THEN [value |-> FALSE, thrown |-> FALSE]
    ELSE IF ~c.opens THEN [value |-> FALSE, thrown |-> FALSE]
    ELSE [value |-> HasRequiredTables(c.tables), thrown |-> FALSE]

(***************************************************************************)
(* The server's handlers on /api/images and /api/data, for a data file     *)
(* that is the .db store ("db") or the .json file ("json")                 *)
(***************************************************************************)
\* const dbManager = new DatabaseManager(); await dbManager.loadDatabase(filePath)
ServerLoad(f) == EnableForeignKeys(Open(f))

HandlerDone(f, j) == [ok |-> TRUE, err |-> "", id |-> 0, file |-> f, json |-> j]

HandlerFailed(err, f, j) == [ok |-> FALSE, err |-> err, id |-> 0, file |-> f, json |-> j]

\* position of the first element whose id is strictly equal to id (0: findIndex gives -1)
FindIndex(j, id) ==
    LET hits == {i \in 1..Len(j) : j[i].id = id}
    IN IF hits = {} THEN 0 ELSE CHOOSE i \in hits : \A k \in hits : i <= k

\* jsonData.images.splice(imageIndex, 1)
Splice(j, at) == [i \in 1..(Len(j) - 1) |-> IF i < at THEN j[i] ELSE j[i + 1]]

\* POST /api/images
PostImages(f, j, image, dataFile, now) ==
    IF ~Truthy(image.id) \/ ~Truthy(image.title) THEN HandlerFailed("400", f, j)
    ELSE IF dataFile = "db"
    THEN LET d == ServerLoad(f)
             o == Transaction(d, AddImageBody(d, image, now))
         IN IF o.ok THEN HandlerDone(FileAfterClose(FALSE, o.db, f), j)
            ELSE HandlerFailed(o.err, f, j)
    ELSE HandlerDone(f, Append(j, image))

\* PUT /api/images
PutImages(f, j, image, dataFile, now) ==
    IF ~Truthy(image.id) THEN HandlerFailed("400", f, j)
    ELSE IF dataFile = "db"
    THEN LET d == ServerLoad(f)
             o == Transaction(d, UpdateImageBody(d, image, now))
         IN IF o.ok THEN HandlerDone(FileAfterClose(FALSE, o.db, f), j)
            ELSE HandlerFailed(o.err, f, j)
    ELSE LET imageIndex == FindIndex(j, image.id)
         IN IF imageIndex = 0 THEN HandlerFailed("not_found", f, j)
            ELSE HandlerDone(f, [j EXCEPT ![imageIndex] = image])

\* DELETE /api/images
DeleteImages(f, j, imageId, dataFile) ==
    IF ~Truthy(imageId) THEN HandlerFailed("400", f, j)
    ELSE IF dataFile = "db"
    THEN LET d == ServerLoad(f)
             o == Transaction(d, DeleteImageBody(d, imageId))
         IN IF o.ok THEN HandlerDone(FileAfterClose(FALSE, o.db, f), j)
            ELSE HandlerFailed(o.err, f, j)
    ELSE LET imageIndex == FindIndex(j, imageId)
         IN IF imageIndex = 0 THEN HandlerFailed("not_found", f, j)
            ELSE HandlerDone(f, Splice(j, imageIndex))

\* GET /api/data/:filename for the .db store: data.images of the response
GetDataDb(f, now) ==
    IF ValidityOf(OnDisk(f)).value
    THEN getAllImages(ServerLoad(f), now).images
    ELSE <<>>

DataFiles == {"db", "json"}

postImages(image, dataFile) ==
    /\ IF dataFile = "db" THEN ServerLoad(file).imagesSeq < MaxPk ELSE Len(json) < MaxPk
    /\ LET o == PostImages(file, json, image, dataFile, NowIso)
       IN /\ file' = o.file
          /\ json' = o.json
          /\ result' = Outcome("POST", o, dataFile)
    /\ UNCHANGED <<manager, renderer, clock, disk, mig>>

putImages(image, dataFile) ==
    /\ LET o == PutImages(file, json, image, dataFile, NowIso)
       IN /\ file' = o.file
          /\ json' = o.json
          /\ result' = Outcome("PUT", o, dataFile)
    /\ UNCHANGED <<manager, renderer, clock, disk, mig>>

deleteImages(imageId, dataFile) ==
    /\ LET o == DeleteImages(file, json, imageId, dataFile)
       IN /\ file' = o.file
          /\ json' = o.json
          /\ result' = Outcome("DELETE", o, dataFile)
    /\ UNCHANGED <<manager, renderer, clock, disk, mig>>

\* GET /api/data/:filename (pk: the number of images answered)
getData(dataFile) ==
    /\ result' = Outcome("GET",
                         [ok |-> TRUE, err |-> "",
                          id |-> IF dataFile = "db" THEN Len(GetDataDb(file, NowIso))
                                 ELSE Len(json)],
                         dataFile)
    /\ UNCHANGED <<manager, renderer, clock, file, json, disk, mig>>

\* the image both data files hold when the server starts on a filled gallery
SeedImage == [BaseImage EXCEPT !.tags = <<Str("sunset")>>]

SeededDb(meta) ==
    Export(Transaction(ServerLoad(EmptyDb(meta)),
                       AddImageBody(ServerLoad(EmptyDb(meta)), SeedImage, Str(IsoStrings[1]))).db)

\* the server beside a .db store and a .json file that hold the same images
InitServer ==
    /\ \E meta \in MetadataChoices, seeded \in BOOLEAN :
          /\ file = IF seeded THEN SeededDb(meta) ELSE EmptyDb(meta)
          /\ json = IF seeded THEN <<SeedImage>> ELSE <<>>
    /\ db = Closed
    /\ loaded = FALSE
    /\ clock = 1
    /\ result = Returned("new")
    /\ hist = NoHistory
    /\ disk = NoFiles
    /\ mig = NoMigration
    /\ renderer = PageOpened

\* the requests of the editor: new images, edits, and a rename of a1 to a2
ServerInputs ==
    PersistInputs
    \cup {[BaseImage EXCEPT !.id = Str("a2"), !.originalId = Str("a1"),
                            !.title = Str("Peak"), !.tags = <<Str("sunset")>>]}

NextServer ==
    \/ \E image \in ServerInputs, dataFile \in DataFiles : postImages(image, dataFile)
    \/ \E image \in ServerInputs, dataFile \in DataFiles : putImages(image, dataFile)
    \/ \E id \in CrudIds, dataFile \in DataFiles : deleteImages(id, dataFile)
    \/ \E dataFile \in DataFiles : getData(dataFile)

SpecServer == InitServer /\ [][NextServer]_vars

\* the images a later GET /api/data/<file> answers for the .db store
Answered(f) == Range(GetDataDb(f, Str("")))

\* C14: after a POST, PUT or DELETE on /api/images for a .db data file has
\* answered success, the mutation is on disk: a later GET /api/data/<file>,
\* which opens the file afresh, returns the added image, the updated
\* fields, or no longer returns the deleted image.
C14_ServerMutationOnDisk ==
    /\ [][\A image \in ServerInputs :
            (/\ result'.via = "db"
             /\ result'.ok
             /\ \/ result'.op = "POST" /\ postImages(image, "db")
                \/ result'.op = "PUT" /\ putImages(image, "db"))
            => \E obj \in Answered(file') :
                  /\ obj.id = image.id
                  /\ obj.title = image.title
                  /\ Range(obj.tags) = Range(image.tags)]_vars
    /\ [][\A id \in CrudIds :
            (/\ result'.via = "db"
             /\ result'.ok
             /\ result'.op = "DELETE"
             /\ deleteImages(id, "db"))
            => \A obj \in Answered(file') : obj.id # id]_vars

\* the image records of a data file, by id, title and set of tag names
RecordOf(image) == [id |-> image.id, title |-> image.title, tags |-> Range(image.tags)]

JsonRecords(j) == {RecordOf(j[i]) : i \in 1..Len(j)}

DbRecords(f) == {RecordOf(obj) : obj \in Answered(f)}

\* the same request answered by both backends: same success, same records after
SameAnswer(a, b) == a.ok = b.ok /\ DbRecords(a.file) = JsonRecords(b.json)

\* C15: the JSON backend and the relational backend are interchangeable for
\* CRUD: from data files that hold the same images, each add, update
\* (also one with an identifier rename) and delete request succeeds on one
\* exactly when it succeeds on the other and both end with the same image
\* records; adding an id already present is rejected by both and leaves one
\* record with that id.
C15_BackendsInterchangeable ==
    JsonRecords(json) = DbRecords(file)
    => /\ \A image \in ServerInputs :
            /\ SameAnswer(PostImages(file, json, image, "db", NowIso),
                          PostImages(file, json, image, "json", NowIso))
            /\ SameAnswer(PutImages(file, json, image, "db", NowIso),
                          PutImages(file, json, image, "json", NowIso))
            /\ (\E i \in 1..Len(json) : json[i].id = image.id)
               => LET b == PostImages(file, json, image, "json", NowIso)
                  IN /\ ~b.ok
                     /\ Cardinality({i \in 1..Len(b.json) : b.json[i].id = image.id}) = 1
       /\ \A id \in CrudIds :
            SameAnswer(DeleteImages(file, json, id, "db"),
                       DeleteImages(file, json, id, "json"))

(***************************************************************************)
(* JsonToSqliteConverter                                                   *)
(***************************************************************************)
\* a destructuring default: it replaces undefined only
DefaultTo(v, dflt) == IF v = Undef THEN dflt ELSE v

\* the values insertImage binds
ConverterParams(imageData, now) ==
    [id |-> imageData.id,
     title |-> DefaultTo(imageData.title, Null),
     description |-> DefaultTo(imageData.description, Null),
     src |-> DefaultTo(imageData.src, Null),
     ranking |-> DefaultTo(imageData.ranking, Null),
     width |-> DefaultTo(imageData.width, Null),
     height |-> DefaultTo(imageData.height, Null),
     is_major |-> IF Truthy(DefaultTo(imageData.isMajor, Bool(FALSE))) THEN Num(1) ELSE Num(0),
     group_id |-> DefaultTo(imageData.groupId, Null),
     major_image_id |-> DefaultTo(imageData.majorImageId, Null),
     date_added |-> Or(DefaultTo(imageData.date, Null), now)]

\* INSERT OR REPLACE INTO images: a row with the same id is deleted first
\* (its associations stay: no foreign key is enforced on this connection)
InsertOrReplaceImageRow(d, p) ==
    LET id == TextAffinity(p.id)
        pk == MaxOf({d.imagesSeq} \cup {r.pk_id : r \in d.images}) + 1
        old == {r \in d.images : r.id = id}
    IN IF id = Null THEN Thrown(d, "not_null")
       ELSE Done([d EXCEPT !.images = (@ \ old) \cup {ImageRow(pk, p)}, !.imagesSeq = pk], pk)

\* JsonToSqliteConverter.insertImage
insertImage(d, imageData, now) ==
    LET params == ConverterParams(imageData, now)
    IN IF \E k \in ParamNames : ~CanBind(params[k]) THEN Thrown(d, "bind")
       ELSE InsertOrReplaceImageRow(d, BindAll(params))

\* JsonToSqliteConverter.getOrCreateTag (id 0: the null it returns)
ConverterGetOrCreateTag(d, tagName) ==
    IF ~Truthy(tagName) \/ tagName.t # "string" THEN Done(d, 0)
    ELSE getOrCreateTag(d, tagName)

\* INSERT OR IGNORE INTO image_tags (a null tag_id is stored as tag_id 0)
InsertOrIgnoreImageTag(d, pk, tagId) ==
    [d EXCEPT !.image_tags = @ \cup {[image_pk_id |-> pk, tag_id |-> tagId]}]

\* JsonToSqliteConverter.insertImageTags
RECURSIVE InsertEachTag(_, _, _)
InsertEachTag(d, pk, tags) ==
    IF tags = <<>> THEN d
    ELSE LET g == ConverterGetOrCreateTag(d, Head(tags))
         IN InsertEachTag(InsertOrIgnoreImageTag(g.db, pk, g.id), pk, Tail(tags))

insertImageTags(d, imageId, tags) ==
    LET imagePkId == SelectPkById(d, imageId)
    IN IF Len(tags) = 0 \/ imagePkId = 0 THEN d ELSE InsertEachTag(d, imagePkId, tags)

\* for (const image of images) { try { insertImage; insertImageTags } catch {} }
RECURSIVE ProcessImages(_, _, _)
ProcessImages(d, images, now) ==
    IF images = <<>> THEN d
    ELSE LET ins == insertImage(d, Head(images), now)
             next == IF ins.ok
                     THEN insertImageTags(ins.db, Head(images).id, Head(images).tags)
                     ELSE d
         IN ProcessImages(next, Tail(images), now)

\* the bytes convertJsonFile writes for a JSON file with this images array
\* and no version, lastUpdated or availableTags entry in its metadata
ConvertJsonFile(images, now) ==
    Export(ProcessImages(Open(EmptyDb(NoMetadata)), images, now))

\* convertJsonFile(jsonFilePath, dbFilePath)
convertJsonFile ==
    /\ file' = ConvertJsonFile(json, NowIso)
    /\ result' = Outcome("convert",
                         [ok |-> TRUE, err |-> "", id |-> Cardinality(file'.images)], "json")
    /\ UNCHANGED <<manager, renderer, clock, json, disk, mig>>

\* the images of the JSON galleries that are converted
GalleryImages ==
    { [v EXCEPT !.id = i] :
        i \in CrudIds,
        v \in { [BaseImage EXCEPT !.tags = <<Str("sunset")>>],
                [BaseImage EXCEPT !.isMajor = Undef, !.tags = <<Str("beach"), Str("sunset")>>],
                [BaseImage EXCEPT !.isMajor = Bool(FALSE), !.groupId = Str("g1")],
                [BaseImage EXCEPT !.date = Undef],
                [BaseImage EXCEPT !.title = Str("Peak"), !.tags = <<Str("beach"), Str("beach")>>] } }

RECURSIVE Galleries(_)
Galleries(n) ==
    IF n = 0 THEN {<<>>}
    ELSE Galleries(n - 1)
         \cup {Append(g, image) : g \in {g \in Galleries(n - 1) : Len(g) = n - 1},
                                  image \in GalleryImages}

\* a JSON gallery on disk, beside a store file that a conversion overwrites
InitConvert ==
    /\ json \in Galleries(MaxPk)
    /\ file \in {EmptyDb(m) : m \in MetadataChoices}
    /\ db = Closed
    /\ loaded = FALSE
    /\ clock = 1
    /\ result = Returned("new")
    /\ hist = NoHistory
    /\ disk = NoFiles
    /\ mig = NoMigration
    /\ renderer = PageOpened

NextConvert ==
    \/ convertJsonFile
    \/ \E dataFile \in DataFiles : getData(dataFile)
    \/ Tick

SpecConvert == InitConvert /\ [][NextConvert]_vars

\* img.name as the frontend reads it: undefined when the object has no such field
Field(obj, name) == IF name \in DOMAIN obj THEN obj[name] ELSE Undef

\* what the frontend reads of an image: id, tags, img.date, img.isMajor !== false
FrontendView(img) ==
    [id |-> Field(img, "id"),
     tags |-> Range(Field(img, "tags")),
     date |-> Field(img, "date"),
     major |-> Field(img, "isMajor") # Bool(FALSE)]

\* C16: loading a JSON gallery file and loading the .db file produced from
\* it by convertJsonFile give the frontend the same images: the same ids
\* and tags, the same date under the field the frontend reads, and the
\* same major/subsidiary classification (isMajor !== false), also for
\* images that carry no isMajor field.
C16_ConvertedLoadsTheSame ==
    result.op = "convert"
    => {FrontendView(json[i]) : i \in 1..Len(json)}
         = {FrontendView(obj) : obj \in Answered(file)}

(***************************************************************************)
(* The validity check on the files a user may select                       *)
(***************************************************************************)
\* isValidDatabase(dbFilePath), on what the path holds
isValidDatabase(path) ==
    /\ LET v == ValidityOf(disk[path])
       IN result' = Outcome("isValidDatabase",
                            [ok |-> v.value, err |-> IF v.thrown THEN "thrown" ELSE "",
                             id |-> 0], "")
    /\ UNCHANGED <<manager, renderer, clock, file, json, disk, mig>>

\* table names found in the files: those of a store, and two of other origin
ProbeTables == StoreTables \cup {"images_new", "notes"}

\* no file, a text file, a file with the signature that sql.js rejects, and
\* SQLite files with any of the tables
ProbeContents ==
    {Missing, PathContent(TRUE, FALSE, FALSE, {}), PathContent(TRUE, TRUE, FALSE, {})}
    \cup {PathContent(TRUE, TRUE, TRUE, tables) : tables \in SUBSET ProbeTables}

InitValidate ==
    /\ \E path \in Paths, c \in ProbeContents : disk = [NoFiles EXCEPT ![path] = c]
    /\ file \in {EmptyDb(m) : m \in MetadataChoices}
    /\ db = Closed
    /\ loaded = FALSE
    /\ clock = 1
    /\ result = Returned("new")
    /\ hist = NoHistory
    /\ json = <<>>
    /\ mig = NoMigration
    /\ renderer = PageOpened

NextValidate == \E path \in Paths : isValidDatabase(path)

SpecValidate == InitValidate /\ [][NextValidate]_vars

\* C17: isValidDatabase returns true only for a path where the file exists,
\* starts with the SQLite signature, and contains both the images table and
\* the metadata table; for every other path or content it returns false,
\* and it never throws.
C17_ValidOnlyWithImagesAndMetadata ==
    [][\A path \in Paths :
         isValidDatabase(path)
         => /\ result'.err = ""
            /\ result'.ok => /\ disk[path].exists
                             /\ disk[path].magic
                             /\ {"images", "metadata"} \subseteq disk[path].tables]_vars

(***************************************************************************)
(* save() and close(true) when fs.writeFileSync throws                     *)
(***************************************************************************)
\* save(): db.export() has run, writeFileSync throws, the catch rethrows
saveWriteFails ==
    /\ IF ~loaded
       THEN /\ result' = NotLoaded("save")
            /\ UNCHANGED db
       ELSE /\ db' = AfterExport(db)
            /\ result' = Outcome("save", [ok |-> FALSE, err |-> "write_failed", id |-> 0], "")
    /\ UNCHANGED <<file, loaded, hist, clock, elsewhere>>

\* close(true): this.save() throws, the catch logs it, the database is closed
closeWriteFails ==
    /\ IF loaded
       THEN /\ db' = Closed
            /\ loaded' = FALSE
            /\ hist' = HistClosed(FALSE)
       ELSE UNCHANGED <<db, loaded, hist>>
    /\ result' = Returned("close")
    /\ UNCHANGED <<file, clock, elsewhere>>

NextDisk ==
    \/ loadDatabase
    \/ \E image \in PersistInputs : addImage(image)
    \/ \E image \in PersistInputs : updateImage(image)
    \/ \E id \in CrudIds : deleteImage(id)
    \/ save
    \/ \E saveFirst \in BOOLEAN : close(saveFirst)
    \/ saveWriteFails
    \/ closeWriteFails

SpecDisk == Init /\ [][NextDisk]_vars

\* C18: whenever writing the store's bytes to the backing file fails, the
\* caller that asked for the write is told: save() raises an error, and
\* close(save=true) whose save step failed also raises an error instead of
\* returning normally.
C18_WriteFailureReported ==
    [][(loaded /\ (saveWriteFails \/ closeWriteFails)) => ~result'.ok]_vars

(***************************************************************************)
(* DatabaseMigrator: a store of the legacy layout, and migrateDatabase     *)
(***************************************************************************)
MaxLegacyId == 2

\* the rows of the legacy images table: id INTEGER PRIMARY KEY, no pk_id
LegacyImage(id) ==
    [id |-> id,
     title |-> Str("Sunset"),
     description |-> Null,
     src |-> Str("sunset.jpg"),
     ranking |-> IF id = 1 THEN Num(5) ELSE Null,
     width |-> Str("400px"),
     height |-> Str("auto"),
     is_major |-> IF id = 1 THEN Num(1) ELSE Num(0),
     group_id |-> Str("g1"),
     major_image_id |-> IF id = 1 THEN Null ELSE Num(1),
     date_added |-> IF id = 1 THEN Str("2024-01-01T00:00:00.000Z") ELSE Null]

LegacyTags == {[id |-> 1, name |-> Str("beach")], [id |-> 2, name |-> Str("sunset")]}

\* the legacy stores: images, tags and image_tags (image_id, tag_id) rows,
\* written without enforced foreign keys
LegacyStores ==
    { [images |-> {LegacyImage(id) : id \in ids}, tags |-> tags,
       image_tags |-> assoc, metadata |-> NoMetadata] :
        ids \in SUBSET (1..MaxLegacyId),
        tags \in SUBSET LegacyTags,
        assoc \in SUBSET [image_id : 1..MaxLegacyId, tag_id : {1, 2}] }

\* a legacy store, as found at its path
LegacyOnDisk(l) == FileContent(TRUE, TRUE, TRUE, StoreTables, "legacy", l)

\* an id without the 'img_' prefix
TextId_NoPrefix(id) == Str(NumToText(id))

\* const textId = `img_${imageData.id}`
TextId(id) == Str("img_" \o NumToText(id))

\* the values migrateData binds for one legacy row
MigrateParams(row, now) ==
    [id |-> TextId(row.id),
     title |-> row.title,
     description |-> row.description,
     src |-> row.src,
     ranking |-> row.ranking,
     width |-> row.width,
     height |-> row.height,
     is_major |-> Or(row.is_major, Num(0)),
     group_id |-> row.group_id,
     major_image_id |-> row.major_image_id,
     date_added |-> Or(row.date_added, now)]

\* for (const row of values) { INSERT INTO images_new ... }, in rowid order
RECURSIVE MigrateImages(_, _, _, _)
MigrateImages(d, l, ids, now) ==
    IF ids = <<>> THEN Done(d, 0)
    ELSE LET row == CHOOSE r \in l.images : r.id = Head(ids)
             ins == InsertImageRow(d, BindAll(MigrateParams(row, now)))
         IN IF ~ins.ok THEN ins ELSE MigrateImages(ins.db, l, Tail(ids), now)

\* INSERT INTO tags_new (id, name, created_at), with the ids of the legacy rows
MigrateTags(d, l) ==
    [d EXCEPT !.tags = l.tags, !.tagsSeq = MaxOf({g.id : g \in l.tags})]

\* SELECT ... FROM image_tags it JOIN images_new i_new ON i_new.id = 'img_' || it.image_id,
\* then INSERT INTO image_tags_new (image_pk_id, tag_id)
MigrateImageTags(d, l) ==
    [d EXCEPT !.image_tags =
        {[image_pk_id |-> j[1].pk_id, tag_id |-> j[2].tag_id] :
            j \in {j \in d.images \X l.image_tags : TextId(j[2].image_id) = j[1].id}}]

\* createNewSchema, migrateData and replaceTables on the opened legacy store
MigrateData(l, now) ==
    LET shadow == Open(EmptyDb(l.metadata))
        images == MigrateImages(shadow, l, SortPks({r.id : r \in l.images}), now)
    IN IF ~images.ok THEN Thrown(shadow, images.err)
       ELSE Done(MigrateImageTags(MigrateTags(images.db, l), l), 0)

\* isOldSchema(db): PRAGMA table_info(images) shows id INTEGER PRIMARY KEY
isOldSchema(c) == c.opens /\ "images" \in c.tables /\ c.layout = "legacy"

\* a migrateDatabase that writes the backup before it looks at the schema and
\* writes the bytes it read back when no migration is needed
migrateStart_BackupFirst(path) ==
    /\ mig.pc = "idle"
    /\ LET c == disk[path]
       IN IF ~c.exists
          THEN /\ result' = Outcome("migrateDatabase",
                                    [ok |-> FALSE, err |-> "ENOENT", id |-> 0], "")
               /\ mig' = NoMigration
          ELSE /\ result' = Outcome("migrateDatabase",
                                    [ok |-> TRUE, err |-> "", id |-> 0], "running")
               /\ mig' = [pc |-> "backup", dbFilePath |-> path, fileBuffer |-> c,
                          data |-> IF isOldSchema(c)
                                   THEN OnDisk(Export(MigrateData(c.data, NowIso).db))
                                   ELSE c]
    /\ UNCHANGED <<manager, renderer, clock, file, json, disk>>

\* migrateDatabase(dbFilePath), up to db.export(): nothing is written yet
migrateStart(path) ==
    /\ mig.pc = "idle"
    /\ LET c == disk[path]
           m == MigrateData(c.data, NowIso)
       IN IF ~c.exists
          THEN /\ result' = Outcome("migrateDatabase",
                                    [ok |-> FALSE, err |-> "ENOENT", id |-> 0], "")
               /\ mig' = NoMigration
          ELSE IF ~isOldSchema(c)
          THEN /\ result' = Outcome("migrateDatabase",
                                    [ok |-> TRUE, err |-> "", id |-> 0], "not_migrated")
               /\ mig' = NoMigration
          ELSE IF ~m.ok
          THEN /\ result' = Outcome("migrateDatabase",
                                    [ok |-> FALSE, err |-> m.err, id |-> 0], "")
               /\ mig' = NoMigration
          ELSE /\ result' = Outcome("migrateDatabase",
                                    [ok |-> TRUE, err |-> "", id |-> 0], "running")
               /\ mig' = [pc |-> "backup", dbFilePath |-> path, fileBuffer |-> c,
                          data |-> OnDisk(Export(m.db))]
    /\ UNCHANGED <<manager, renderer, clock, file, json, disk>>

\* fs.writeFileSync(backupPath, fileBuffer)
writeBackup ==
    /\ mig.pc = "backup"
    /\ disk' = [disk EXCEPT ![BackupPath(mig.dbFilePath)] = mig.fileBuffer]
    /\ mig' = [mig EXCEPT !.pc = "store"]
    /\ UNCHANGED <<manager, renderer, clock, file, json, result>>

\* fs.writeFileSync(dbFilePath, data); return true
\* (the locals of the finished call stay in mig)
writeStore ==
    /\ mig.pc = "store"
    /\ disk' = [disk EXCEPT ![mig.dbFilePath] = mig.data]
    /\ mig' = [mig EXCEPT !.pc = "idle"]
    /\ result' = Outcome("migrateDatabase", [ok |-> TRUE, err |-> "", id |-> 0], "migrated")
    /\ UNCHANGED <<manager, renderer, clock, file, json>>

\* the stores the migrator is pointed at: legacy stores, and stores of the
\* current layout as the converter and the server leave them
MigratorStores ==
    {LegacyOnDisk(l) : l \in LegacyStores}
    \cup {OnDisk(EmptyDb(NoMetadata)), OnDisk(SeededDb(NoMetadata))}

\* a store at one of the paths the migrator is given
InitMigrate ==
    /\ \E path \in DbFilePaths, c \in MigratorStores :
          disk = [NoFiles EXCEPT ![path] = c]
    /\ file \in {EmptyDb(m) : m \in MetadataChoices}
    /\ db = Closed
    /\ loaded = FALSE
    /\ clock = 1
    /\ result = Returned("new")
    /\ hist = NoHistory
    /\ json = <<>>
    /\ mig = NoMigration
    /\ renderer = PageOpened

NextMigrate ==
    \/ \E path \in DbFilePaths : migrateStart(path)
    \/ writeBackup
    \/ writeStore
    \/ \E path \in Paths : isValidDatabase(path)
    \/ Tick

SpecMigrate == InitMigrate /\ [][NextMigrate]_vars

\* names of the tags joined to a legacy image
LegacyTagNames(l, id) ==
    {g.name : g \in {g \in l.tags : [image_id |-> id, tag_id |-> g.id] \in l.image_tags}}

\* a migrateDatabase call has returned true
Migrated == mig.pc = "idle" /\ result.op = "migrateDatabase" /\ result.via = "migrated"

\* C19: after a successful migration the images relation holds exactly one
\* row per legacy image, the row for legacy id n has publicId 'img_'
\* followed by n, and each migrated image is associated with exactly the tag
\* names its legacy row was associated with.
C19_MigrationKeepsImagesAndTags ==
    Migrated
    => LET l == mig.fileBuffer.data
           n == Open(disk[mig.dbFilePath].data)
       IN /\ Cardinality(n.images) = Cardinality(l.images)
          /\ \A row \in l.images :
                LET hits == {r \in n.images : r.id = Str("img_" \o NumToText(row.id))}
                IN /\ Cardinality(hits) = 1
                   /\ \A r \in hits :
                        Range(TagNamesOfPk(n, r.pk_id)) = LegacyTagNames(l, row.id)

\* a migration has returned true for a legacy store of two images, one of
\* them with two tags
C19_Witness ==
    /\ Migrated
    /\ Cardinality(mig.fileBuffer.data.images) = 2
    /\ \E row \in mig.fileBuffer.data.images :
          Cardinality(LegacyTagNames(mig.fileBuffer.data, row.id)) = 2

\* C20: in every run of migrateDatabase that overwrites the store file, a
\* backup file holding exactly the pre-migration bytes has been written, at
\* a path different from the store's path, before the store file is
\* overwritten, and it still holds those bytes when the call returns; this
\* holds for every path migrateDatabase is given.
C20_BackupBeforeOverwrite ==
    [][writeStore
       => LET backupPath == BackupPath(mig.dbFilePath)
          IN /\ backupPath # mig.dbFilePath
             /\ disk[backupPath] = mig.fileBuffer
             /\ disk'[backupPath] = mig.fileBuffer]_vars

\* the last migrateDatabase call returned true and none was started since
MigratedLast == mig.pc = "idle" /\ mig.dbFilePath # <<>>

\* C21: migrateDatabase on a store that already uses the current schema
\* reports 'not migrated', writes neither the store file nor a backup and so
\* leaves bytes, rows and publicIds as they were; after a legacy store was
\* migrated, a second run changes neither the store file nor the backup.
C21_MigrationIdempotent ==
    /\ [][\A path \in DbFilePaths :
            (/\ disk[path].exists
             /\ ~isOldSchema(disk[path])
             /\ migrateStart(path))
            => (/\ result'.ok
                /\ result'.via = "not_migrated"
                /\ mig'.pc = "idle"
                /\ disk' = disk)]_vars
    /\ [][MigratedLast => (disk' = disk /\ mig'.pc = "idle")]_vars

\* a second run on a migrated store has reported 'not migrated'; the backup
\* of the first run still holds the legacy store
C21_Witness ==
    /\ result.op = "migrateDatabase"
    /\ result.via = "not_migrated"
    /\ \E path \in DbFilePaths :
          /\ disk[path].layout = "current"
          /\ disk[path].data.images # {}
          /\ BackupPath(path) # path
          /\ disk[BackupPath(path)].layout = "legacy"

\* the field values the gallery reads of the migrated row of a legacy image
MigratedObject(n, id) ==
    ImageObject(n, CHOOSE r \in n.images : r.id = TextId(id))

\* C22: migration preserves the major/subsidiary relationship: an image
\* whose majorImageId was the identifier of an existing image before the
\* migration has, after it, a majorImageId equal to the post-migration
\* publicId of that same image.
C22_MajorRelationKept ==
    Migrated
    => LET l == mig.fileBuffer.data
           n == Open(disk[mig.dbFilePath].data)
       IN \A row, major \in l.images :
             row.major_image_id = Num(major.id)
             => MigratedObject(n, row.id).majorImageId = MigratedObject(n, major.id).id

(***************************************************************************)
(* DatabaseManager.getImagesByTag                                          *)
(***************************************************************************)
\* images.push({ id: row.id, ..., dateAdded: row.date_added }) for one join row
TaggedImageObject(r) ==
    [id |-> r.id,
     title |-> r.title,
     description |-> r.description,
     src |-> r.src,
     ranking |-> r.ranking,
     width |-> r.width,
     height |-> r.height,
     isMajor |-> Bool(r.is_major = Num(1)),
     groupId |-> r.group_id,
     majorImageId |-> r.major_image_id,
     dateAdded |-> r.date_added]

\* FROM images i JOIN image_tags it ON i.pk_id = it.image_pk_id
\* JOIN tags t ON it.tag_id = t.id WHERE t.name = ?: the pk_id of each join row
JoinedPks(d, tagName) ==
    {j[1].pk_id : j \in {j \in d.images \X d.image_tags \X d.tags :
                            /\ j[1].pk_id = j[2].image_pk_id
                            /\ j[2].tag_id = j[3].id
                            /\ j[3].name = TextAffinity(BindValue(tagName))}}

RECURSIVE TaggedImageObjects(_, _)
TaggedImageObjects(d, pks) ==
    IF pks = <<>> THEN <<>>
    ELSE <<TaggedImageObject(RowOfPk(d, Head(pks)))>> \o TaggedImageObjects(d, Tail(pks))

\* DatabaseManager.getImagesByTag, ORDER BY i.pk_id
getImagesByTag(d, tagName) == TaggedImageObjects(d, SortPks(JoinedPks(d, tagName)))

\* the tag names the callers ask for
TagQueries == {Str("beach"), Str("sunset"), Str("zeta")}

\* the records of listAll whose tag list holds the name, in listAll's order
ListedWithTag(d, tagName) ==
    SelectSeq(getAllImages(d, Str("")).images,
              LAMBDA obj : \E i \in 1..Len(obj.tags) : obj.tags[i] = tagName)

\* C23: getImagesByTag(name) returns exactly the images associated with the
\* tag of that exact name, in ascending internal-key order, and each record
\* has the same fields with the same values, including its list of tags, as
\* the record listAll returns for that image.
C23_ByTagSameAsListAll ==
    loaded => \A tagName \in TagQueries :
                 getImagesByTag(db, tagName) = ListedWithTag(db, tagName)

UniqueTagNames(d) == \A g1, g2 \in d.tags : g1.name = g2.name => g1 = g2

\* C24: the tags relation holds at most one row per name in every reachable
\* state: resolving the same non-empty tag name again, in one call or across
\* add and update calls of different images, returns the same tag key and
\* creates a row only the first time.
C24_OneRowPerTagName ==
    /\ [](UniqueTagNames(db))
    /\ [](loaded => \A tagName \in TagQueries :
                       LET first == getOrCreateTag(db, tagName)
                           again == getOrCreateTag(first.db, tagName)
                       IN /\ first.ok /\ again.ok
                          /\ again.id = first.id
                          /\ again.db = first.db
                          /\ (\E g \in db.tags : g.name = tagName) => first.db = db
                          /\ Cardinality({g \in first.db.tags : g.name = tagName}) = 1)
    /\ [][result'.op \in {"add", "update", "delete"}
          => \A g \in db.tags, h \in db'.tags : g.name = h.name => g.id = h.id]_vars

\* an update has succeeded and two images are associated with the one row of
\* the same tag name
C24_Witness ==
    /\ result.op = "update"
    /\ result.ok
    /\ \E g \in db.tags :
          Cardinality({a \in db.image_tags : a.tag_id = g.id}) = 2

\* no row of the store carries the id
NotInStore(d, id) == \A r \in d.images : r.id # id

\* C25: updateImage for an id that is not in the store, with no previous
\* identifier that is in the store, and deleteImage for an id that is not in
\* the store fail with a not-found error and change nothing, in every store
\* state, also after the id was deleted or renamed away by an earlier call.
C25_NotFoundChangesNothing ==
    /\ [][\A image \in CrudInputs :
            (/\ result'.op = "update"
             /\ loaded
             /\ NotInStore(db, image.id)
             /\ image.originalId = Undef \/ NotInStore(db, image.originalId)
             /\ updateImage(image))
            => (/\ ~result'.ok
                /\ result'.err = "not_found"
                /\ db' = db)]_vars
    /\ [][\A id \in CrudIds :
            (/\ result'.op = "delete"
             /\ loaded
             /\ NotInStore(db, id)
             /\ deleteImage(id))
            => (/\ ~result'.ok
                /\ result'.err = "not_found"
                /\ db' = db)]_vars

\* a delete has failed with not-found on a store that holds another image
\* and from which an image added earlier is gone
C25_Witness ==
    /\ result.op = "delete"
    /\ result.err = "not_found"
    /\ Cardinality(db.images) = 1
    /\ db.imagesSeq = 2

(***************************************************************************)
(* migrateDatabase when one of its steps throws                            *)
(***************************************************************************)
\* the steps between the schema test and db.export(), all on the in-memory db
MigrationSteps == {"createNewSchema", "migrateData", "replaceTables"}

\* migrateDatabase(dbFilePath) on a legacy store, where the step throws: the
\* catch rethrows and the finally closes the in-memory db
migrateFails(path, step) ==
    /\ mig.pc = "idle"
    /\ disk[path].exists
    /\ isOldSchema(disk[path])
    /\ result' = Outcome("migrateDatabase", [ok |-> FALSE, err |-> step, id |-> 0], "")
    /\ mig' = NoMigration
    /\ UNCHANGED <<manager, renderer, clock, file, json, disk>>

\* a file after fs.writeFileSync(path, ...) threw: as it was when the open
\* failed, cut to nothing when the write failed after the open truncated it
AfterFailedWrite(before) == {before, PathContent(TRUE, FALSE, FALSE, {})}

\* fs.writeFileSync(backupPath, fileBuffer) throws
writeBackupFails ==
    /\ mig.pc = "backup"
    /\ \E after \in AfterFailedWrite(disk[BackupPath(mig.dbFilePath)]) :
          disk' = [disk EXCEPT ![BackupPath(mig.dbFilePath)] = after]
    /\ result' = Outcome("migrateDatabase",
                         [ok |-> FALSE, err |-> "write_failed", id |-> 0], "")
    /\ mig' = NoMigration
    /\ UNCHANGED <<manager, renderer, clock, file, json>>

NextMigrateFails ==
    \/ \E path \in DbFilePaths : migrateStart(path)
    \/ \E path \in DbFilePaths, step \in MigrationSteps : migrateFails(path, step)
    \/ writeBackup
    \/ writeBackupFails
    \/ writeStore
    \/ Tick

SpecMigrateFails == InitMigrate /\ [][NextMigrateFails]_vars

\* C26: if migrateDatabase fails at any step (creating the shadow tables,
\* copying rows, replacing the tables, writing the backup), the store file
\* on disk is byte-identical to what it was before the call.
C26_FailureLeavesStoreFile ==
    /\ [][\A path \in DbFilePaths, step \in MigrationSteps :
            migrateFails(path, step) => disk'[path] = disk[path]]_vars
    /\ [][writeBackupFails => disk'[mig.dbFilePath] = mig.fileBuffer]_vars

(***************************************************************************)
(* JsonToSqliteConverter when the INSERT of a tag row throws               *)
(***************************************************************************)
\* JsonToSqliteConverter.getOrCreateTag where INSERT INTO tags throws for the
\* names in throwing: the catch looks the name up again and returns the id
\* it finds, null (id 0) otherwise
GetOrCreateTagThrowing(d, tagName, throwing) ==
    IF ~Truthy(tagName) \/ tagName.t # "string" THEN Done(d, 0)
    ELSE IF \E g \in d.tags : g.name = tagName THEN getOrCreateTag(d, tagName)
    ELSE IF tagName \in throwing
    THEN LET retryResult == {g \in d.tags : g.name = tagName}
         IN IF retryResult # {} THEN Done(d, (CHOOSE g \in retryResult : TRUE).id)
            ELSE Done(d, 0)
    ELSE getOrCreateTag(d, tagName)

\* the loop of insertImageTags over that getOrCreateTag
RECURSIVE InsertEachTagThrowing(_, _, _, _)
InsertEachTagThrowing(d, pk, tags, throwing) ==
    IF tags = <<>> THEN d
    ELSE LET g == GetOrCreateTagThrowing(d, Head(tags), throwing)
         IN InsertEachTagThrowing(InsertOrIgnoreImageTag(g.db, pk, g.id), pk,
                                  Tail(tags), throwing)

InsertImageTagsThrowing(d, imageId, tags, throwing) ==
    LET imagePkId == SelectPkById(d, imageId)
    IN IF Len(tags) = 0 \/ imagePkId = 0 THEN d
       ELSE InsertEachTagThrowing(d, imagePkId, tags, throwing)

RECURSIVE ProcessImagesThrowing(_, _, _, _)
ProcessImagesThrowing(d, images, now, throwing) ==
    IF images = <<>> THEN d
    ELSE LET ins == insertImage(d, Head(images), now)
             next == IF ins.ok
                     THEN InsertImageTagsThrowing(ins.db, Head(images).id,
                                                  Head(images).tags, throwing)
                     ELSE d
         IN ProcessImagesThrowing(next, Tail(images), now, throwing)

\* convertJsonFile(jsonFilePath, dbFilePath) during which the INSERT of the
\* tag row of tagName throws
convertJsonFileInsertThrows(tagName) ==
    /\ file' = Export(ProcessImagesThrowing(Open(EmptyDb(NoMetadata)), json, NowIso, {tagName}))
    /\ result' = Outcome("convert",
                         [ok |-> TRUE, err |-> "", id |-> Cardinality(file'.images)], "throwing")
    /\ UNCHANGED <<manager, renderer, clock, json, disk, mig>>

NextConvertThrows ==
    \/ convertJsonFile
    \/ \E tagName \in TagQueries : convertJsonFileInsertThrows(tagName)
    \/ \E dataFile \in DataFiles : getData(dataFile)
    \/ Tick

SpecConvertThrows == InitConvert /\ [][NextConvertThrows]_vars

\* the tag names of the images of a JSON gallery
NamesIn(j) == UNION {Range(j[i].tags) : i \in 1..Len(j)}

\* C27: when the insert of a new tag row fails and the second lookup finds
\* nothing, the failure reaches the caller as an error, and no absent or
\* null key is returned and used for an association.
C27_TagFailureSurfaces ==
    [][\A tagName \in TagQueries :
         (/\ result'.via = "throwing"
          /\ tagName \in NamesIn(json)
          /\ convertJsonFileInsertThrows(tagName))
         => \/ ~result'.ok
            \/ \A a \in file'.image_tags : \E g \in file'.tags : g.id = a.tag_id]_vars

\* every association row references an existing image row and an existing tag row
NoDangling(d) ==
    \A a \in d.image_tags :
        /\ \E r \in d.images : r.pk_id = a.image_pk_id
        /\ \E g \in d.tags : g.id = a.tag_id

\* C28: after any operation that builds or mutates a store completes, every
\* association row references an existing image row and an existing tag
\* row, also in a store converted from a JSON document in which two images
\* share an id.
C28_NoDanglingAssociations ==
    /\ NoDangling(file)
    /\ loaded => NoDangling(db)

(***************************************************************************)
(* GET /api/data/:filename on the files of the data directory              *)
(***************************************************************************)
\* filename.toLowerCase().endsWith('.db')
IsDatabaseFile(path) == path[Len(path)] = ".db"

\* getAllImages() on the opened file throws: no images table, no pk_id column
\* to order by, or, once a row is listed, no tags, image_tags or metadata
\* table for the two queries that follow
GetAllImagesThrows(c) ==
    \/ "images" \notin c.tables
    \/ c.layout = "legacy"
    \/ /\ c.data.images # {}
       /\ ~({"tags", "image_tags", "metadata"} \subseteq c.tables)

\* getDatabaseStats() on the opened file throws: it counts images and tags
GetDatabaseStatsThrows(c) == ~({"images", "tags"} \subseteq c.tables)

\* GET /api/data/:filename for the file at path: the status of the response
GetDataStatus(path, c) ==
    IF ~c.exists THEN "404"
    ELSE IF ~IsDatabaseFile(path) THEN "500"
    ELSE IF ~ValidityOf(c).value THEN "400"
    ELSE IF GetAllImagesThrows(c) \/ GetDatabaseStatsThrows(c) THEN "500"
    ELSE "200"

getDataAt(path) ==
    /\ LET status == GetDataStatus(path, disk[path])
       IN result' = Outcome("GET",
                            [ok |-> status = "200",
                             err |-> IF status = "200" THEN "" ELSE status, id |-> 0],
                            IF IsDatabaseFile(path) THEN "sqlite" ELSE "json")
    /\ UNCHANGED <<manager, renderer, clock, file, json, disk, mig>>

\* the SQLite files of the data directory: stores of the current layout,
\* also with tables missing, and stores of the legacy layout
ServedContents ==
    {FileContent(TRUE, TRUE, TRUE, tables, "current", bytes) :
        tables \in SUBSET StoreTables,
        bytes \in {EmptyDb(NoMetadata), SeededDb(NoMetadata)}}
    \cup {LegacyOnDisk(l) : l \in LegacyStores}

InitServed ==
    /\ \E path \in Paths, c \in ServedContents : disk = [NoFiles EXCEPT ![path] = c]
    /\ file \in {EmptyDb(m) : m \in MetadataChoices}
    /\ db = Closed
    /\ loaded = FALSE
    /\ clock = 1
    /\ result = Returned("new")
    /\ hist = NoHistory
    /\ json = <<>>
    /\ mig = NoMigration
    /\ renderer = PageOpened

NextServed ==
    \/ \E path \in Paths : isValidDatabase(path)
    \/ \E path \in Paths : getDataAt(path)

SpecServed == InitServed /\ [][NextServed]_vars

\* C29: every file that isValidDatabase accepts can be opened by
\* loadDatabase and listed by getAllImages without an error, so the load
\* endpoint that gates on isValidDatabase never answers a server error for
\* an accepted file, also for a store in the legacy layout.
C29_AcceptedFilesLoad ==
    [][\A path \in Paths :
         (/\ result'.via = "sqlite"
          /\ ValidityOf(disk[path]).value
          /\ getDataAt(path))
         => (/\ ~GetAllImagesThrows(disk[path])
             /\ result'.err # "500")]_vars

(***************************************************************************)
(* The gallery page: loadImageData and the requests of its editor          *)
(***************************************************************************)
MaxLoads == 3

\* result.data.images of the response to fetch(`/api/data/${currentJsonFile}`)
ServedImages(dataFile) == IF dataFile = "db" THEN GetDataDb(file, NowIso) ELSE json

\* const fallbackImages: the first of the sample images, with the fields it carries
fallbackImages ==
    << [BaseImage EXCEPT !.id = Num(1), !.title = Str("Sunset"),
                         !.description = Str("at the sea"), !.src = Null,
                         !.ranking = Num(9), !.width = Undef, !.height = Undef,
                         !.isMajor = Undef, !.date = Undef,
                         !.tags = <<Str("sunset"), Str("mountains")>>] >>

\* loadSelectedJsonFile / setCustomJsonFile: currentJsonFile = selectedFile;
\* loadImageData() runs up to its await fetch(...)
selectFile(dataFile) ==
    /\ renderer.loads < MaxLoads
    /\ renderer' = [renderer EXCEPT
                      !.currentJsonFile = dataFile,
                      !.loads = @ + 1,
                      !.inflight = @ \cup {[call |-> renderer.loads + 1, file |-> dataFile]}]
    /\ result' = Outcome("loadImageData", [ok |-> TRUE, err |-> "", id |-> 0], dataFile)
    /\ UNCHANGED <<manager, clock, file, json, disk, mig>>

\* loadImageData() from the await on: the response of one fetch in flight is
\* handled (images = data.images; fallbackImages when the response is not ok)
responseArrives(request, ok) ==
    /\ request \in renderer.inflight
    /\ renderer' = [renderer EXCEPT
                      !.images = IF ok THEN ServedImages(request.file) ELSE fallbackImages,
                      !.from = IF ok THEN request.file ELSE "fallback",
                      !.inflight = @ \ {request}]
    /\ result' = Outcome("response", [ok |-> ok, err |-> "", id |-> request.call],
                         request.file)
    /\ UNCHANGED <<manager, clock, file, json, disk, mig>>

\* the editor's request for a displayed image, built from the image object
RequestOf(img, title) ==
    IF "originalId" \in DOMAIN img THEN [img EXCEPT !.title = title]
    ELSE AsRequest(img, title)

\* updateImage(image) of the page: PUT /api/images with dataFile: currentJsonFile
\* (pk: the position of the image on the page)
rendererUpdate(i, title) ==
    /\ i \in 1..Len(renderer.images)
    /\ LET o == PutImages(file, json, RequestOf(renderer.images[i], title),
                          renderer.currentJsonFile, NowIso)
       IN /\ file' = o.file
          /\ json' = o.json
          /\ result' = Outcome("rendererUpdate", [o EXCEPT !.id = i],
                               renderer.currentJsonFile)
    /\ UNCHANGED <<manager, renderer, clock, disk, mig>>

\* deleteImage(image) of the page: DELETE /api/images with dataFile: currentJsonFile
rendererDelete(i) ==
    /\ i \in 1..Len(renderer.images)
    /\ LET o == DeleteImages(file, json, renderer.images[i].id, renderer.currentJsonFile)
       IN /\ file' = o.file
          /\ json' = o.json
          /\ result' = Outcome("rendererDelete", [o EXCEPT !.id = i],
                               renderer.currentJsonFile)
    /\ UNCHANGED <<manager, renderer, clock, disk, mig>>

\* the page beside a .json file with one image and a .db store with another
InitRenderer ==
    /\ \E meta \in MetadataChoices, seeded \in BOOLEAN :
          /\ file = IF seeded THEN SeededDb(meta) ELSE EmptyDb(meta)
          /\ json \in {<<>>, <<SeedImage>>, <<[SeedImage EXCEPT !.id = Str("a2")]>>}
    /\ db = Closed
    /\ loaded = FALSE
    /\ clock = 1
    /\ result = Returned("new")
    /\ hist = NoHistory
    /\ disk = NoFiles
    /\ mig = NoMigration
    /\ renderer = PageOpened

NextRenderer ==
    \/ \E dataFile \in DataFiles : selectFile(dataFile)
    \/ \E request \in renderer.inflight, ok \in BOOLEAN : responseArrives(request, ok)
    \/ \E i \in 1..MaxPk, title \in CrudTitles : rendererUpdate(i, title)
    \/ \E i \in 1..MaxPk : rendererDelete(i)

SpecRenderer == InitRenderer /\ [][NextRenderer]_vars

\* C30: when two loadImageData calls overlap, once both responses have been
\* handled the images held in memory are those of the file named by
\* currentJsonFile, in whatever order the responses arrive; hence the update
\* and delete requests issued for displayed images name the file those
\* images were loaded from.
C30_ImagesOfCurrentFile ==
    /\ [](renderer.inflight = {} /\ renderer.from \in DataFiles
          => renderer.from = renderer.currentJsonFile)
    /\ [][(result'.op \in {"rendererUpdate", "rendererDelete"}
           /\ renderer.inflight = {} /\ renderer.from \in DataFiles)
          => result'.via = renderer.from]_vars

====
